---- MODULE Spec2Model ----
(***************************************************************************)
(* Block manager of the rollup node: the Aggregation loop of a proposer   *)
(* and the Sync and Retrieve loops of a follower (block/manager.go), over  *)
(* the Store, Executor and DA client contracts the manager consumes.       *)
(***************************************************************************)
EXTENDS Integers, Sequences, FiniteSets, TLC

\* ------------------------------------------------------------------ bounds
\* Highest block height the network announces and the DA layer holds.
MaxHeight == 3
\* Largest genesis.InitialHeight tried.
MaxInitialHeight == 2
\* Number of headers the gossip layer delivers on HeaderInCh in one run.
MaxHeaders == 2
\* Number of aggregation ticks of one run.
MaxTicks == 4
\* Number of blocks, and their highest height, a driver of blockInCh sends in one run.
MaxScript == 5
\* Highest height of the blocks a DA layer serving arbitrary blocks returns.
MaxRandomHeight == 3
\* Highest height of the headers given to Header.Verify.
MaxVerifyHeight == 3
\* Number of client names known to the callers of the DA registry.
MaxClientNames == 7

\* mustRetrieveBlock: maxRetries := 10
maxRetries == 10

Heights == 1..MaxHeight
InitialHeights == 1..MaxInitialHeight

\* ------------------------------------------------------------------ data
\* [32]byte{}: the all-zero digest.
ZeroHash == << >>

\* Header.Hash(): a digest of the header's fields, one per header.
Hash(header) == <<header.Height, header.DataHash, header.LastHeaderHash>>

\* A height-indexed map (Go map[uint64]T): insert, delete.
Put(f, k, v) == [x \in (DOMAIN f) \cup {k} |-> IF x = k THEN v ELSE f[x]]
Del(f, k) == [x \in (DOMAIN f) \ {k} |-> f[x]]

Max(S) == CHOOSE x \in S : \A y \in S : y <= x

\* ------------------------------------------------------------------ Store
\* A fresh store of a chain whose first height is initial.
NewStore(initial) ==
    [blocks |-> << >>, commits |-> << >>, state |-> << >>, base |-> initial - 1]

\* Store.Height(): the largest saved height, initial_height - 1 when empty.
Height(s) == IF DOMAIN s.blocks = {} THEN s.base ELSE Max(DOMAIN s.blocks)

\* Store.SaveBlock(block, commit): both persisted under block.Header.Height.
SaveBlock(s, block, commit) ==
    [s EXCEPT !.blocks = Put(s.blocks, block.Header.Height, block),
              !.commits = Put(s.commits, block.Header.Height, commit)]

\* Store.UpdateState(state): the singleton is overwritten.
UpdateState(s, state) == [s EXCEPT !.state = <<state>>]

\* Store.LoadCommit(height).
LoadCommit(s, height) == s.commits[height]

\* ------------------------------------------------------------------ Executor
\* state.NewFromGenesisDoc(genesis).
NewFromGenesisDoc(initial) ==
    [LastBlockHeight |-> initial - 1, LastBlockHash |-> ZeroHash]

\* BlockExecutor.ApplyBlock: the state after the block.
ApplyBlock(state, block) ==
    [LastBlockHeight |-> block.Header.Height, LastBlockHash |-> Hash(block.Header)]

\* BlockExecutor.CreateBlock(height, lastCommit, state): the header links the
\* previous header through the last commit, which the block carries.
CreateBlock(height, lastCommit, state) ==
    [Header |-> [Height |-> height,
                 DataHash |-> height,
                 LastHeaderHash |-> lastCommit.HeaderHash],
     LastCommit |-> lastCommit]

\* ------------------------------------------------------------------ publishBlock
\* GenesisCommit taking the new height for the height of the synthesized commit.
GenesisCommitNewHeight(s) ==
    [Height |-> Height(s) + 1, HeaderHash |-> ZeroHash, Signatures |-> << >>]

\* The commit of the first block: there is no previous commit.
GenesisCommit(s) ==
    [Height |-> Height(s), HeaderHash |-> ZeroHash, Signatures |-> << >>]

\* The last commit publishBlock builds the next block from.
LastCommitFor(s, initial) ==
    IF Height(s) + 1 = initial THEN GenesisCommit(s)
    ELSE LoadCommit(s, Height(s))

\* SignCommit leaving the header hash of the commit zero.
SignCommitNoHash(block) ==
    [Height |-> block.Header.Height,
     HeaderHash |-> ZeroHash,
     Signatures |-> <<"sig">>]

\* The commit publishBlock signs for its block.
SignCommit(block) ==
    [Height |-> block.Header.Height,
     HeaderHash |-> Hash(block.Header),
     Signatures |-> <<"sig">>]

\* The store after k successful ticks of a proposer, and the block of the
\* k-th tick: what the DA layer holds for a chain starting at initial.
RECURSIVE PublishedStore(_, _)
PublishedStore(initial, k) ==
    IF k = 0 THEN NewStore(initial)
    ELSE LET s == PublishedStore(initial, k - 1)
             block == CreateBlock(Height(s) + 1, LastCommitFor(s, initial),
                                  NewFromGenesisDoc(initial))
         IN  SaveBlock(s, block, SignCommit(block))

\* The block the DA layer holds at height h.
DABlock(initial, h) == PublishedStore(initial, h - initial + 1).blocks[h]

\* GetRandomBlock(height, nTxs): a block of the height that no proposer of the
\* chain built: other data, a last header hash that names no header of the chain,
\* the zero commit.
RandomBlock(height) ==
    [Header |-> [Height |-> height, DataHash |-> 0, LastHeaderHash |-> <<0>>],
     LastCommit |-> [Height |-> 0, HeaderHash |-> ZeroHash, Signatures |-> << >>]]

\* What the store, executor and DA calls of one publishBlock run can do.
PublishOutcomes == {"ok", "loadErr", "applyErr", "saveErr", "updateErr", "submitErr"}

\* publishBlock submitting to the DA layer before it saves: a refused block leaves
\* the store and the last state as they were.
publishBlockSubmitFirst(m, initial, outcome) ==
    LET newHeight == Height(m.store) + 1
        lastCommit == LastCommitFor(m.store, initial)
        block == CreateBlock(newHeight, lastCommit, m.lastState)
        newState == ApplyBlock(m.lastState, block)
        commit == SignCommit(block)
        saved == SaveBlock(m.store, block, commit)
    IN  IF outcome \in {"loadErr", "applyErr", "saveErr", "submitErr"}
        THEN [store |-> m.store, lastState |-> m.lastState,
              submit |-> << >>, send |-> << >>, err |-> outcome]
        ELSE IF outcome = "updateErr"
        THEN [store |-> saved, lastState |-> newState,
              submit |-> << >>, send |-> << >>, err |-> outcome]
        ELSE [store |-> UpdateState(saved, newState), lastState |-> newState,
              submit |-> <<block>>, send |-> <<block.Header>>, err |-> "nil"]

\* publishBlock and broadcastBlock up to the send on HeaderOutCh: the store and
\* last state after the tick, the block the DA layer accepted, the header to
\* send and the error returned, for the outcome of its calls.
publishBlock(m, initial, outcome) ==
    LET newHeight == Height(m.store) + 1
        lastCommit == LastCommitFor(m.store, initial)
        block == CreateBlock(newHeight, lastCommit, m.lastState)
        newState == ApplyBlock(m.lastState, block)
        commit == SignCommit(block)
        saved == SaveBlock(m.store, block, commit)
    IN  IF outcome \in {"loadErr", "applyErr", "saveErr"}
        THEN [store |-> m.store, lastState |-> m.lastState,
              submit |-> << >>, send |-> << >>, err |-> outcome]
        ELSE IF outcome = "updateErr"
        THEN [store |-> saved, lastState |-> newState,
              submit |-> << >>, send |-> << >>, err |-> outcome]
        ELSE IF outcome = "submitErr"
        THEN [store |-> UpdateState(saved, newState), lastState |-> newState,
              submit |-> << >>, send |-> << >>, err |-> outcome]
        ELSE [store |-> UpdateState(saved, newState), lastState |-> newState,
              submit |-> <<block>>, send |-> <<block.Header>>, err |-> "nil"]

\* ------------------------------------------------------------------ SyncLoop
\* SyncBlock taking b1 from currentHeight+2: a height is skipped.
SyncBlockSkip(m, block, outcome) ==
    LET cache == Put(m.syncCache, block.Header.Height, block)
        currentHeight == Height(m.store)
        ok1 == currentHeight + 1 \in DOMAIN cache
        ok2 == currentHeight + 2 \in DOMAIN cache
        b1 == cache[currentHeight + 2]
        b2 == cache[currentHeight + 2]
    IN  IF ~(ok1 /\ ok2) \/ outcome \in {"applyErr", "saveErr"}
        THEN [syncCache |-> cache, store |-> m.store, lastState |-> m.lastState]
        ELSE [syncCache |-> Del(cache, currentHeight + 1),
              store |-> UpdateState(SaveBlock(m.store, b1, b2.LastCommit),
                                    ApplyBlock(m.lastState, b1)),
              lastState |-> ApplyBlock(m.lastState, b1)]

\* SyncBlock repeating its apply and save step while both blocks are staged.
RECURSIVE Drain(_)
Drain(m) ==
    LET currentHeight == Height(m.store)
        b1 == m.syncCache[currentHeight + 1]
        b2 == m.syncCache[currentHeight + 2]
        newState == ApplyBlock(m.lastState, b1)
    IN  IF {currentHeight + 1, currentHeight + 2} \subseteq DOMAIN m.syncCache
        THEN Drain([syncCache |-> Del(m.syncCache, currentHeight + 1),
                    store |-> UpdateState(SaveBlock(m.store, b1, b2.LastCommit), newState),
                    lastState |-> newState])
        ELSE m

SyncBlockDrain(m, block, outcome) ==
    LET n == [m EXCEPT !.syncCache = Put(m.syncCache, block.Header.Height, block)]
    IN  IF outcome = "ok" THEN Drain(n) ELSE n

\* SyncBlock saving b1 as soon as it is staged, with the commit b1 carries.
SyncBlockEager(m, block, outcome) ==
    LET cache == Put(m.syncCache, block.Header.Height, block)
        currentHeight == Height(m.store)
        ok1 == currentHeight + 1 \in DOMAIN cache
        b1 == cache[currentHeight + 1]
    IN  IF ~ok1 \/ outcome \in {"applyErr", "saveErr"}
        THEN [syncCache |-> cache, store |-> m.store, lastState |-> m.lastState]
        ELSE [syncCache |-> Del(cache, currentHeight + 1),
              store |-> UpdateState(SaveBlock(m.store, b1, b1.LastCommit),
                                    ApplyBlock(m.lastState, b1)),
              lastState |-> ApplyBlock(m.lastState, b1)]

\* case block := <-m.blockInCh: the staging cache, store and last state after
\* the handler, for the outcome of its executor and store calls.
SyncBlock(m, block, outcome) ==
    LET cache == Put(m.syncCache, block.Header.Height, block)
        currentHeight == Height(m.store)
        ok1 == currentHeight + 1 \in DOMAIN cache
        ok2 == currentHeight + 2 \in DOMAIN cache
        b1 == cache[currentHeight + 1]
        b2 == cache[currentHeight + 2]
        newState == ApplyBlock(m.lastState, b1)
        saved == SaveBlock(m.store, b1, b2.LastCommit)
    IN  IF ~(ok1 /\ ok2) \/ outcome \in {"applyErr", "saveErr"}
        THEN [syncCache |-> cache, store |-> m.store, lastState |-> m.lastState]
        ELSE IF outcome = "updateErr"
        THEN [syncCache |-> cache, store |-> saved, lastState |-> newState]
        ELSE [syncCache |-> Del(cache, currentHeight + 1),
              store |-> UpdateState(saved, newState),
              lastState |-> newState]

\* What the executor and store calls of one handler run can do.
Outcomes == {"ok", "applyErr", "saveErr", "updateErr"}

\* ------------------------------------------------------------------ Header.Verify
\* The values an aggregator set hash takes.
AggregatorSets == {"setA", "setB"}

\* The headers given to Header.Verify, by the fields it reads.
VerifyHeaders ==
    [Height : 0..MaxVerifyHeight,
     AggregatorsHash : AggregatorSets,
     NextAggregatorsHash : AggregatorSets]

\* Verify checking the aggregator hashes of every pair, adjacent or not.
VerifyAnyHeight(h, untrstH) ==
    IF untrstH.AggregatorsHash # h.NextAggregatorsHash THEN "VerifyError" ELSE "nil"

\* func (h *Header) Verify(untrstH *Header) error
Verify(h, untrstH) ==
    IF untrstH.Height = h.Height + 1
    THEN IF untrstH.AggregatorsHash # h.NextAggregatorsHash
         THEN "VerifyError"
         ELSE "nil"
    ELSE "nil"

\* No call of Header.Verify yet.
NoVerify == [h |-> << >>, untrstH |-> << >>, err |-> "none"]

\* ------------------------------------------------------------------ DA registry
\* The names callers of the registry use; the first three are built in.
ClientNames ==
    <<"grpc", "celestia", "newda", "testDA", "nonexistent", "mock", "local", "avail",
      "other">>
BuiltIn == {"grpc", "celestia", "newda"}
Names == {ClientNames[i] : i \in 1..MaxClientNames}

\* The constructors callers register.
Constructors == {"ctor1", "ctor2"}

\* The constructors by name, as the package holds them once loaded.
NewClients == [name \in BuiltIn |-> name]

\* Register answering AlreadyRegistered for a taken name, yet replacing its
\* constructor.
RegisterReplacing(clients, name, constructor) ==
    [clients |-> Put(clients, name, constructor),
     err |-> IF name \in DOMAIN clients THEN <<"ErrAlreadyRegistered", name>> ELSE << >>]

\* Register(name, constructor): the constructors after the call and its error.
Register(clients, name, constructor) ==
    IF name \in DOMAIN clients
    THEN [clients |-> clients, err |-> <<"ErrAlreadyRegistered", name>>]
    ELSE [clients |-> Put(clients, name, constructor), err |-> << >>]

\* RegisteredClients(): the registered names.
RegisteredClients(clients) == DOMAIN clients

\* GetClient(name): the client its constructor builds, nil (<< >>) for an
\* unregistered name.
GetClient(clients, name) ==
    IF name \in DOMAIN clients THEN <<clients[name]>> ELSE << >>

\* No call of the registry yet.
NoCall == [op |-> "none", name |-> "", err |-> << >>, client |-> << >>]
NewRegistry == [clients |-> NewClients, last |-> NoCall]

\* No publishBlock has run yet.
NoTick == [outcome |-> "none", err |-> "nil"]

\* ------------------------------------------------------------------ state
VARIABLES
    aggregator,   \* the node runs the Aggregation loop (proposer) or Sync and Retrieve
    genesis,      \* m.genesis: [InitialHeight]
    store,        \* m.store
    lastState,    \* m.lastState
    syncTarget,   \* m.syncTarget
    syncCache,    \* m.syncCache
    retrieveCh,   \* m.retrieveCh: the value Sync is blocked sending, or << >>
    blockInCh,    \* m.blockInCh: the block Retrieve is blocked sending, or << >>
    HeaderOutCh,  \* m.HeaderOutCh: the header Aggregation is blocked sending, or << >>
    pcSync,       \* SyncLoop: "select", "signal" (in retrieveCh <-), "done", "off"
    pcRetrieve,   \* RetrieveLoop: "select", "woken", "fetch", "send", "panic", "done", "off"
    pcAgg,        \* AggregationLoop: "timer", "send" (in HeaderOutCh <-), "done", "off"
    h,            \* RetrieveLoop: the height of the for loop
    target,       \* RetrieveLoop: target
    r,            \* mustRetrieveBlock: r
    cancelled,    \* ctx.Done() is closed
    submitted,    \* DA layer: the blocks SubmitBlock accepted, in order
    observed,     \* the headers the consumer of HeaderOutCh received, in order
    headersIn,    \* history: the number of headers received on HeaderInCh
    fetched,      \* history: the heights RetrieveBlock answered with Success, in order,
                  \* in the current or last run of RetrieveLoop's for loop
    delivered,    \* history: the number of blocks received on blockInCh in that run
    retr,         \* history: the RetrieveBlock calls of the running mustRetrieveBlock
    ticks,        \* history: the number of publishBlock calls
    loads,        \* history: the number of LoadCommit calls
    clean,        \* history: no call failed and no DA answer was for another height
    script,       \* history: the heights a driver of blockInCh sent, in order
    lastTick,     \* history: the outcome of the calls of the last publishBlock and
                  \* the error it returned
    verify,       \* Header.Verify: the trusted and the untrusted header and the result
    registry      \* DA registry: the registered constructors and the last call

vars == <<aggregator, genesis, store, lastState, syncTarget, syncCache, retrieveCh,
          blockInCh, HeaderOutCh, pcSync, pcRetrieve, pcAgg, h, target, r, cancelled,
          submitted, observed, headersIn, fetched, delivered, retr, ticks, loads, clean,
          script, lastTick, verify, registry>>

followerVars == <<syncTarget, syncCache, retrieveCh, blockInCh, pcSync, pcRetrieve,
                  h, target, r, headersIn, fetched, delivered, retr>>
proposerVars == <<HeaderOutCh, pcAgg, submitted, observed, ticks, loads, script,
                  lastTick>>
managerVars == <<aggregator, genesis, store, lastState, cancelled, clean,
                 followerVars, proposerVars>>
libVars == <<verify, registry>>

NoRetrieval == [calls |-> 0, fails |-> 0, startHeight |-> 0]

\* NewManager: the state after construction, for either role of the node.
InitManager ==
    /\ aggregator \in BOOLEAN
    /\ \E initial \in InitialHeights :
          /\ genesis = [InitialHeight |-> initial]
          /\ store = NewStore(initial)
          /\ lastState = NewFromGenesisDoc(initial)
    /\ syncTarget = 0
    /\ syncCache = << >>
    /\ retrieveCh = << >>
    /\ blockInCh = << >>
    /\ HeaderOutCh = << >>
    /\ pcSync = IF aggregator THEN "off" ELSE "select"
    /\ pcRetrieve = IF aggregator THEN "off" ELSE "select"
    /\ pcAgg = IF aggregator THEN "timer" ELSE "off"
    /\ h = 0 /\ target = 0 /\ r = 0
    /\ cancelled = FALSE
    /\ submitted = << >>
    /\ observed = << >>
    /\ headersIn = 0
    /\ fetched = << >>
    /\ delivered = 0
    /\ retr = NoRetrieval
    /\ ticks = 0
    /\ loads = 0
    /\ clean = TRUE
    /\ script = << >>
    /\ lastTick = NoTick

\* The node after construction: no header verified yet, the registry as loaded.
Init ==
    /\ InitManager
    /\ verify = NoVerify
    /\ registry = NewRegistry

\* panic("failed to retrieve block with DALC") ends the process.
Crashed == pcRetrieve = "panic"

\* ------------------------------------------------------------------ SyncLoop
\* case header := <-m.HeaderInCh, up to the send on retrieveCh.
SyncHeader(newHeight) ==
    /\ ~Crashed
    /\ pcSync = "select"
    /\ headersIn < MaxHeaders
    /\ headersIn' = headersIn + 1
    /\ IF newHeight > Height(store)
       THEN /\ syncTarget' = newHeight
            /\ retrieveCh' = <<newHeight>>
            /\ pcSync' = "signal"
       ELSE UNCHANGED <<syncTarget, retrieveCh, pcSync>>
    /\ UNCHANGED <<aggregator, genesis, store, lastState, syncCache, blockInCh,
                   pcRetrieve, h, target, r, cancelled, fetched, delivered, retr, clean>>
    /\ UNCHANGED proposerVars
    /\ UNCHANGED libVars

\* case <-ctx.Done() of SyncLoop.
SyncReturn ==
    /\ ~Crashed
    /\ pcSync = "select"
    /\ cancelled
    /\ pcSync' = "done"
    /\ UNCHANGED <<aggregator, genesis, store, lastState, syncTarget, syncCache,
                   retrieveCh, blockInCh, pcRetrieve, h, target, r, cancelled,
                   headersIn, fetched, delivered, retr, clean>>
    /\ UNCHANGED proposerVars
    /\ UNCHANGED libVars

\* ------------------------------------------------------------------ RetrieveLoop
\* case <-m.retrieveCh: the rendezvous with SyncLoop's send.
RetrieveWake ==
    /\ ~Crashed
    /\ pcRetrieve = "select"
    /\ pcSync = "signal"
    /\ retrieveCh' = << >>
    /\ pcSync' = "select"
    /\ pcRetrieve' = "woken"
    /\ UNCHANGED <<aggregator, genesis, store, lastState, syncTarget, syncCache,
                   blockInCh, h, target, r, cancelled, headersIn, fetched, delivered, retr, clean>>
    /\ UNCHANGED proposerVars
    /\ UNCHANGED libVars

\* RetrieveFrom with the loop bound h < target: the target is never fetched.
RetrieveFromBelowTarget(next, upTo) ==
    IF next < upTo
    THEN /\ pcRetrieve' = "fetch" /\ h' = next /\ target' = upTo /\ r' = 0
    ELSE /\ pcRetrieve' = "select" /\ h' = 0 /\ target' = 0 /\ r' = 0

\* The loop a step of RetrieveLoop continues with, from height next.
RetrieveFrom(next, upTo) ==
    IF next <= upTo
    THEN /\ pcRetrieve' = "fetch" /\ h' = next /\ target' = upTo /\ r' = 0
    ELSE /\ pcRetrieve' = "select" /\ h' = 0 /\ target' = 0 /\ r' = 0

\* target := atomic.LoadUint64(&m.syncTarget); for h := m.store.Height() + 1; ...
RetrieveRange ==
    /\ ~Crashed
    /\ pcRetrieve = "woken"
    /\ RetrieveFrom(Height(store) + 1, syncTarget)
    /\ fetched' = << >>
    /\ delivered' = 0
    /\ UNCHANGED <<aggregator, genesis, store, lastState, syncTarget, syncCache,
                   retrieveCh, blockInCh, pcSync, cancelled, headersIn, retr, clean>>
    /\ UNCHANGED proposerVars
    /\ UNCHANGED libVars

\* What m.retriever.RetrieveBlock(height) can answer.
RetrieveResults(initial, height) ==
    {[Code |-> "StatusSuccess", Block |-> DABlock(initial, hh)] :
        hh \in {x \in Heights : x >= initial}}
    \cup {[Code |-> c, Block |-> << >>] : c \in {"StatusError", "StatusTimeout"}}

\* The history of the running mustRetrieveBlock call after one more RetrieveBlock.
RetrCall(res) ==
    [calls |-> retr.calls + 1,
     fails |-> IF res.Code = "StatusSuccess" THEN retr.fails ELSE retr.fails + 1,
     startHeight |-> IF retr.calls = 0 THEN Height(store) ELSE retr.startHeight]

\* mustRetrieveBlock giving up one failure early.
AfterFailureOneFewer(retries) == IF retries + 2 < maxRetries THEN "fetch" ELSE "panic"

\* mustRetrieveBlock trying once more than maxRetries.
AfterFailureOneMore(retries) == IF retries < maxRetries THEN "fetch" ELSE "panic"

\* for r := 0; r < maxRetries; r++ { ... }; panic(...): where mustRetrieveBlock
\* goes after a failed fetchBlock that followed retries failed ones.
AfterFailure(retries) == IF retries + 1 < maxRetries THEN "fetch" ELSE "panic"

\* One turn of mustRetrieveBlock's loop: fetchBlock up to its send on blockInCh,
\* the pause after a failure, and the panic after the last one.
FetchBlock(res) ==
    /\ ~Crashed
    /\ pcRetrieve = "fetch"
    /\ retr' = RetrCall(res)
    /\ IF res.Code = "StatusSuccess"
       THEN /\ blockInCh' = <<res.Block>>
            /\ pcRetrieve' = "send"
            /\ fetched' = Append(fetched, h)
            /\ clean' = (clean /\ res.Block.Header.Height = h)
            /\ UNCHANGED r
       ELSE /\ r' = r + 1
            /\ pcRetrieve' = AfterFailure(r)
            /\ clean' = FALSE
            /\ UNCHANGED <<blockInCh, fetched>>
    /\ UNCHANGED <<aggregator, genesis, store, lastState, syncTarget, syncCache,
                   retrieveCh, pcSync, h, target, cancelled, headersIn, delivered>>
    /\ UNCHANGED proposerVars
    /\ UNCHANGED libVars

\* m.blockInCh <- blockRes.Block meets case block := <-m.blockInCh: SyncLoop runs
\* its handler, fetchBlock and mustRetrieveBlock return and the for loop goes on.
DeliverBlock(outcome) ==
    /\ ~Crashed
    /\ pcRetrieve = "send"
    /\ pcSync = "select"
    /\ LET m == [syncCache |-> syncCache, store |-> store, lastState |-> lastState]
           n == SyncBlock(m, blockInCh[1], outcome)
       IN  /\ syncCache' = n.syncCache
           /\ store' = n.store
           /\ lastState' = n.lastState
           /\ clean' = (clean /\ (outcome = "ok" \/ n = SyncBlock(m, blockInCh[1], "ok")))
    /\ blockInCh' = << >>
    /\ retr' = NoRetrieval
    /\ delivered' = delivered + 1
    /\ RetrieveFrom(h + 1, target)
    /\ UNCHANGED <<aggregator, genesis, syncTarget, retrieveCh, pcSync, cancelled,
                   headersIn, fetched>>
    /\ UNCHANGED proposerVars
    /\ UNCHANGED libVars

\* case <-ctx.Done() of RetrieveLoop.
RetrieveReturn ==
    /\ ~Crashed
    /\ pcRetrieve = "select"
    /\ cancelled
    /\ pcRetrieve' = "done"
    /\ UNCHANGED <<aggregator, genesis, store, lastState, syncTarget, syncCache,
                   retrieveCh, blockInCh, pcSync, h, target, r, cancelled,
                   headersIn, fetched, delivered, retr, clean>>
    /\ UNCHANGED proposerVars
    /\ UNCHANGED libVars

\* ------------------------------------------------------------------ AggregationLoop
\* case <-timer.C: publishBlock, up to the send on HeaderOutCh.
Tick(outcome) ==
    /\ ~Crashed
    /\ pcAgg = "timer"
    /\ ticks < MaxTicks
    /\ outcome = "loadErr" => Height(store) + 1 # genesis.InitialHeight
    /\ LET m == [store |-> store, lastState |-> lastState]
           n == publishBlock(m, genesis.InitialHeight, outcome)
       IN  /\ store' = n.store
           /\ lastState' = n.lastState
           /\ submitted' = submitted \o n.submit
           /\ HeaderOutCh' = n.send
           /\ pcAgg' = IF n.send = << >> THEN "timer" ELSE "send"
           /\ lastTick' = [outcome |-> outcome, err |-> n.err]
    /\ ticks' = ticks + 1
    /\ loads' = IF Height(store) + 1 = genesis.InitialHeight THEN loads ELSE loads + 1
    /\ clean' = (clean /\ outcome = "ok")
    /\ UNCHANGED <<aggregator, genesis, cancelled, observed, script>>
    /\ UNCHANGED followerVars
    /\ UNCHANGED libVars

\* m.HeaderOutCh <- &block.Header meets the consumer's receive: broadcastBlock and
\* publishBlock return and the timer is reset.
ConsumeHeader ==
    /\ ~Crashed
    /\ pcAgg = "send"
    /\ observed' = Append(observed, HeaderOutCh[1])
    /\ HeaderOutCh' = << >>
    /\ pcAgg' = "timer"
    /\ UNCHANGED <<aggregator, genesis, store, lastState, cancelled, submitted,
                   ticks, loads, clean, script, lastTick>>
    /\ UNCHANGED followerVars
    /\ UNCHANGED libVars

\* case <-ctx.Done() of AggregationLoop.
AggregationReturn ==
    /\ ~Crashed
    /\ pcAgg = "timer"
    /\ cancelled
    /\ pcAgg' = "done"
    /\ UNCHANGED <<aggregator, genesis, store, lastState, cancelled, submitted,
                   observed, HeaderOutCh, ticks, loads, clean, script, lastTick>>
    /\ UNCHANGED followerVars
    /\ UNCHANGED libVars

\* The context is cancelled.
Cancel ==
    /\ ~Crashed
    /\ ~cancelled
    /\ cancelled' = TRUE
    /\ UNCHANGED <<aggregator, genesis, store, lastState, clean>>
    /\ UNCHANGED followerVars
    /\ UNCHANGED proposerVars
    /\ UNCHANGED libVars

Next ==
    \/ \E newHeight \in Heights : SyncHeader(newHeight)
    \/ SyncReturn
    \/ RetrieveWake
    \/ RetrieveRange
    \/ \E res \in RetrieveResults(genesis.InitialHeight, h) : FetchBlock(res)
    \/ \E outcome \in Outcomes : DeliverBlock(outcome)
    \/ RetrieveReturn
    \/ \E outcome \in PublishOutcomes : Tick(outcome)
    \/ ConsumeHeader
    \/ AggregationReturn
    \/ Cancel

Spec == Init /\ [][Next]_vars

\* ------------------------------------------------------------------ SyncLoop alone
\* A follower whose SyncLoop is fed by a driver of blockInCh; no header arrives, so
\* RetrieveLoop stays idle.
InitScript ==
    /\ Init
    /\ ~aggregator

\* A send on blockInCh by the driver meets case block := <-m.blockInCh.
TestDeliver(height, outcome) ==
    /\ pcSync = "select"
    /\ Len(script) < MaxScript
    /\ height >= genesis.InitialHeight
    /\ script' = Append(script, height)
    /\ LET m == [syncCache |-> syncCache, store |-> store, lastState |-> lastState]
           block == DABlock(genesis.InitialHeight, height)
           n == SyncBlock(m, block, outcome)
       IN  /\ syncCache' = n.syncCache
           /\ store' = n.store
           /\ lastState' = n.lastState
           /\ clean' = (clean /\ (outcome = "ok" \/ n = SyncBlock(m, block, "ok")))
    /\ UNCHANGED <<aggregator, genesis, syncTarget, retrieveCh, blockInCh, HeaderOutCh,
                   pcSync, pcRetrieve, pcAgg, h, target, r, cancelled, submitted,
                   observed, headersIn, fetched, delivered, retr, ticks, loads,
                   lastTick>>
    /\ UNCHANGED libVars

NextScript == \E height \in 1..MaxScript, outcome \in Outcomes : TestDeliver(height, outcome)

SpecScript == InitScript /\ [][NextScript]_vars

\* ------------------------------------------------------------------ SyncLoop, any DA
\* A send on blockInCh of a block a DA layer returned with StatusSuccess, the
\* chain's block of the height or another one, meets case block := <-m.blockInCh.
TestDeliverRandom(height, random, outcome) ==
    /\ pcSync = "select"
    /\ height >= genesis.InitialHeight
    /\ LET m == [syncCache |-> syncCache, store |-> store, lastState |-> lastState]
           block == IF random THEN RandomBlock(height)
                    ELSE DABlock(genesis.InitialHeight, height)
           n == SyncBlock(m, block, outcome)
       IN  /\ syncCache' = n.syncCache
           /\ store' = n.store
           /\ lastState' = n.lastState
           /\ clean' = (clean /\ (outcome = "ok" \/ n = SyncBlock(m, block, "ok")))
    /\ UNCHANGED <<aggregator, genesis, syncTarget, retrieveCh, blockInCh, HeaderOutCh,
                   pcSync, pcRetrieve, pcAgg, h, target, r, cancelled, submitted,
                   observed, headersIn, fetched, delivered, retr, ticks, loads,
                   script, lastTick>>
    /\ UNCHANGED libVars

NextRandom ==
    \E height \in 1..MaxRandomHeight, random \in BOOLEAN, outcome \in Outcomes :
        TestDeliverRandom(height, random, outcome)

SpecRandom == InitScript /\ [][NextRandom]_vars

\* ------------------------------------------------------------------ Header.Verify alone
\* The manager of the library specifications: constructed, never started.
IdleManager ==
    /\ InitManager
    /\ ~aggregator
    /\ genesis.InitialHeight = 1

\* A caller holds a trusted and an untrusted header.
InitVerify ==
    /\ IdleManager
    /\ registry = NewRegistry
    /\ \E t \in VerifyHeaders, u \in VerifyHeaders :
          verify = [h |-> t, untrstH |-> u, err |-> "none"]

\* err := h.Verify(untrstH)
VerifyCall ==
    /\ verify.err = "none"
    /\ verify' = [verify EXCEPT !.err = Verify(verify.h, verify.untrstH)]
    /\ UNCHANGED managerVars
    /\ UNCHANGED registry

NextVerify == VerifyCall

SpecVerify == InitVerify /\ [][NextVerify]_vars

\* ------------------------------------------------------------------ DA registry alone
InitRegistry ==
    /\ IdleManager
    /\ verify = NoVerify
    /\ registry = NewRegistry

\* err := Register(name, constructor)
RegisterCall(name, constructor) ==
    /\ LET res == Register(registry.clients, name, constructor)
       IN  registry' = [clients |-> res.clients,
                        last |-> [op |-> "Register", name |-> name,
                                  err |-> res.err, client |-> << >>]]
    /\ UNCHANGED managerVars
    /\ UNCHANGED verify

\* dalc := GetClient(name)
GetClientCall(name) ==
    /\ registry' = [registry EXCEPT
                      !.last = [op |-> "GetClient", name |-> name, err |-> << >>,
                                client |-> GetClient(registry.clients, name)]]
    /\ UNCHANGED managerVars
    /\ UNCHANGED verify

NextRegistry ==
    \/ \E name \in Names, constructor \in Constructors : RegisterCall(name, constructor)
    \/ \E name \in Names : GetClientCall(name)

SpecRegistry == InitRegistry /\ [][NextRegistry]_vars

\* ------------------------------------------------------------------ properties
\* The staging cache as SyncLoop sees it once it has inserted the block in flight.
CacheWithInbound ==
    IF blockInCh = << >> THEN syncCache
    ELSE Put(syncCache, blockInCh[1].Header.Height, blockInCh[1])

\* C1: Store.Height() never decreases, and on a follower every step that saves a
\* block saves the block of height Store.Height()+1 and nothing else, so the
\* height rises by exactly one and no height is skipped.
C1_MonotoneHeight ==
    [][/\ Height(store') >= Height(store)
       /\ (~aggregator /\ store'.blocks # store.blocks) =>
             /\ Height(store') = Height(store) + 1
             /\ DOMAIN store'.blocks = DOMAIN store.blocks \cup {Height(store) + 1}
             /\ store'.blocks[Height(store) + 1].Header.Height = Height(store) + 1
             /\ \A k \in DOMAIN store.blocks : store'.blocks[k] = store.blocks[k]]_vars

\* C1 witness: a follower has saved two consecutive heights.
C1_Witness ==
    /\ ~aggregator
    /\ DOMAIN store.blocks = {genesis.InitialHeight, genesis.InitialHeight + 1}

\* C2: on a follower, a step that changes the store or the last state is a run of
\* the block handler in which the cache holds both Store.Height()+1 and
\* Store.Height()+2; the block it saves is the cached block of Store.Height()+1 and
\* the commit it saves is the last commit carried by the cached block of
\* Store.Height()+2. With Store.Height()+2 missing nothing is applied or saved.
C2_SaveNeedsSuccessor ==
    [][(~aggregator /\ (store' # store \/ lastState' # lastState)) =>
         LET cur == Height(store)
             cache == CacheWithInbound
         IN  /\ blockInCh # << >>
             /\ cur + 1 \in DOMAIN cache
             /\ cur + 2 \in DOMAIN cache
             /\ store'.blocks # store.blocks =>
                   /\ store'.blocks[cur + 1] = cache[cur + 1]
                   /\ store'.commits[cur + 1] = cache[cur + 2].LastCommit]_vars

\* C2 witness: a follower has saved a block together with the last commit of the
\* DA layer's next block.
C2_Witness ==
    /\ ~aggregator
    /\ genesis.InitialHeight \in DOMAIN store.commits
    /\ store.commits[genesis.InitialHeight] =
         DABlock(genesis.InitialHeight, genesis.InitialHeight + 1).LastCommit

\* C3: follower ingestion is idempotent: after any sequence of deliveries in which
\* no executor or store call failed, delivering one of the delivered blocks again
\* leaves the store (blocks, commits, state, height) as it is.
C3_IdempotentIngestion ==
    clean =>
      \A i \in 1..Len(script) :
        LET m == [syncCache |-> syncCache, store |-> store, lastState |-> lastState]
            again == DABlock(genesis.InitialHeight, script[i])
        IN  SyncBlock(m, again, "ok").store = store

\* Both follower loops wait in their select after the only header of the run, of
\* height syncTarget, and no call failed on the way.
LinearSyncDone ==
    /\ ~aggregator
    /\ clean
    /\ headersIn = 1
    /\ syncTarget >= genesis.InitialHeight
    /\ pcSync = "select"
    /\ pcRetrieve = "select"

\* The heights from..to in ascending order.
Ascending(from, to) == [i \in 1..(to - from + 1) |-> from + i - 1]

\* C4 as stated: after a single header of height T on an empty store the follower
\* has fetched every height up to T once, in ascending order, and rests with
\* Store.Height() = T-2 and the blocks T-1 and T staged.
C4_LinearSyncStopsTwoBelow ==
    (LinearSyncDone /\ syncTarget > genesis.InitialHeight) =>
      /\ fetched = Ascending(genesis.InitialHeight, syncTarget)
      /\ Height(store) = syncTarget - 2
      /\ DOMAIN syncCache = {syncTarget - 1, syncTarget}

\* C4 amended: after a single header of height T on an empty store the follower
\* has fetched every height up to T once, in ascending order, and rests with the
\* heights up to T-1 saved, Store.Height() = T-1 and only block T staged.
C4_LinearSyncStopsOneBelow ==
    LinearSyncDone =>
      /\ fetched = Ascending(genesis.InitialHeight, syncTarget)
      /\ DOMAIN store.blocks = genesis.InitialHeight..(syncTarget - 1)
      /\ Height(store) = syncTarget - 1
      /\ DOMAIN syncCache = {syncTarget}

\* C4 witness: a linear sync to the highest announced height has come to rest.
C4_Witness ==
    /\ LinearSyncDone
    /\ genesis.InitialHeight = 1
    /\ syncTarget = MaxHeight
    /\ delivered = MaxHeight

\* The out-of-order arrival: heights 3, 1, 2, 4, 5 on the empty store of a chain
\* that starts at height 1.
OutOfOrder == <<3, 1, 2, 4, 5>>

\* The deliveries so far are the first ones of OutOfOrder, and no call failed.
InOutOfOrderRun ==
    /\ genesis.InitialHeight = 1
    /\ clean
    /\ Len(script) <= Len(OutOfOrder)
    /\ script = SubSeq(OutOfOrder, 1, Len(script))

\* C5: with blocks arriving in the order 3, 1, 2, 4, 5 nothing is saved before
\* blocks 1 and 2 are both staged; the arrival of 2 saves block 1 alone, the
\* arrival of 4 saves block 2 (block 3 is staged by then), the arrival of 5 saves
\* block 3; the saved heights are always 1..Store.Height(), and the run ends with
\* Store.Height() = 3 and blocks 4 and 5 staged.
C5_OutOfOrderArrival ==
    InOutOfOrderRun =>
      /\ Height(store) = <<0, 0, 0, 1, 2, 3>>[Len(script) + 1]
      /\ DOMAIN store.blocks = 1..Height(store)
      /\ DOMAIN syncCache = {k \in 1..5 : k > Height(store) /\
                                \E i \in 1..Len(script) : script[i] = k}
      /\ 2 \in DOMAIN store.blocks => \E i \in 1..Len(script) : script[i] = 3
      /\ script = OutOfOrder => Height(store) = 3 /\ DOMAIN syncCache = {4, 5}

\* C5 witness: all five blocks of the out-of-order run have been delivered.
C5_Witness ==
    /\ InOutOfOrderRun
    /\ script = OutOfOrder
    /\ Height(store) = 3

\* C6: after cancellation the Sync loop and the Retrieve loop return: a follower
\* whose context is cancelled never comes to rest (no step of either loop
\* possible) with one of the two loops still inside its body.
C6_CancellationReturns ==
    (~aggregator /\ cancelled /\ ~Crashed /\ ~ENABLED Next) =>
      (pcSync = "done" /\ pcRetrieve = "done")

\* C7: a retrieval whose RetrieveBlock fails k < maxRetries times and then succeeds
\* has made exactly k+1 calls when it hands its block over; fewer than maxRetries
\* failures never end in the panic; and every block fetched is handed to the Sync
\* loop once: the deliveries are the successful fetches, less the one in flight.
C7_TransientFailureRecovery ==
    ~aggregator =>
      /\ pcRetrieve = "send" => retr.calls = retr.fails + 1 /\ retr.fails < maxRetries
      /\ pcRetrieve = "fetch" => retr.calls = retr.fails
      /\ retr.fails < maxRetries => pcRetrieve # "panic"
      /\ delivered = Len(fetched) - (IF pcRetrieve = "send" THEN 1 ELSE 0)

\* C7 witness: RetrieveBlock succeeded on its last allowed attempt.
C7_Witness ==
    /\ pcRetrieve = "send"
    /\ retr.fails = maxRetries - 1
    /\ retr.calls = maxRetries

Emitted == observed \o HeaderOutCh

\* C9: after the first tick of a proposer on an empty store, with every call
\* succeeding, the store holds exactly the block of height initial_height, built
\* on the synthesized commit {initial_height-1, zero hash, no signatures} with no
\* LoadCommit call, and exactly one header, of that height, has been emitted.
C9_GenesisBlock ==
    (aggregator /\ ticks = 1 /\ clean) =>
      LET initial == genesis.InitialHeight IN
      /\ Height(store) = initial
      /\ DOMAIN store.blocks = {initial}
      /\ store.blocks[initial].Header.Height = initial
      /\ store.blocks[initial].LastCommit =
           [Height |-> initial - 1, HeaderHash |-> ZeroHash, Signatures |-> << >>]
      /\ loads = 0
      /\ Len(Emitted) = 1
      /\ Emitted[1] = store.blocks[initial].Header

\* C9 witness: the header of the first block of a chain starting above height 1
\* has reached the consumer.
C9_Witness ==
    /\ aggregator /\ ticks = 1 /\ clean
    /\ genesis.InitialHeight = MaxInitialHeight
    /\ Len(observed) = 1

\* C10: after N ticks of a proposer, every call succeeding, the saved heights are
\* initial_height..initial_height+N-1 (one block per tick); every block after the
\* first carries the commit saved for the previous height and links the hash of
\* the previous header; the N headers emitted are those of the saved blocks in
\* ascending height order, each the header of a block already saved and accepted
\* by the DA layer.
C10_SteadyState ==
    (aggregator /\ clean) =>
      LET initial == genesis.InitialHeight IN
      /\ DOMAIN store.blocks = initial..(initial + ticks - 1)
      /\ DOMAIN store.commits = DOMAIN store.blocks
      /\ Height(store) = initial + ticks - 1
      /\ \A k \in DOMAIN store.blocks :
            /\ store.blocks[k].Header.Height = k
            /\ store.commits[k].Height = k
            /\ k > initial =>
                  /\ store.blocks[k].LastCommit = store.commits[k - 1]
                  /\ store.blocks[k].Header.LastHeaderHash =
                       Hash(store.blocks[k - 1].Header)
      /\ Len(Emitted) = ticks
      /\ Len(submitted) = ticks
      /\ \A i \in 1..ticks :
            /\ Emitted[i].Height = initial + i - 1
            /\ Emitted[i] = store.blocks[initial + i - 1].Header
            /\ submitted[i] = store.blocks[initial + i - 1]

\* C10 witness: all the ticks of the run succeeded and every header was received.
C10_Witness ==
    /\ aggregator /\ clean
    /\ ticks = MaxTicks
    /\ Len(observed) = MaxTicks

\* C11: a tick whose DA.SubmitBlock is refused returns an error and sends no
\* header, the DA layer holds nothing new, and the block, its commit and the new
\* state are persisted: Store.Height() and lastState are at the new height. The
\* tick after it builds the block of the following height on the commit saved by
\* the refused tick, and when it succeeds it submits and announces that block, not
\* the refused one.
C11_SubmitFailure ==
    [][(aggregator /\ ticks' = ticks + 1) =>
         LET new == Height(store) + 1 IN
         /\ lastTick'.outcome = "submitErr" =>
               /\ lastTick'.err # "nil"
               /\ pcAgg' = "timer"
               /\ Emitted' = Emitted
               /\ submitted' = submitted
               /\ Height(store') = new
               /\ store'.blocks[new].Header.Height = new
               /\ store'.commits[new] = SignCommit(store'.blocks[new])
               /\ store'.state = <<lastState'>>
               /\ lastState'.LastBlockHeight = new
         /\ (lastTick.outcome = "submitErr" /\
              lastTick'.outcome \in {"ok", "updateErr", "submitErr"}) =>
               /\ Height(store') = new
               /\ store'.blocks[new].LastCommit = store.commits[new - 1]
               /\ store'.blocks[new - 1] = store.blocks[new - 1]
         /\ (lastTick.outcome = "submitErr" /\ lastTick'.outcome = "ok") =>
               /\ submitted' = Append(submitted, store'.blocks[new])
               /\ Emitted' = Append(Emitted, store'.blocks[new].Header)]_vars

\* C11 witness: after a tick that succeeded, the DA layer has refused the block of
\* the next tick.
C11_Witness ==
    /\ aggregator
    /\ lastTick.outcome = "submitErr"
    /\ Len(observed) = 1
    /\ Len(submitted) = 1
    /\ Height(store) = genesis.InitialHeight + 1

\* C12: every block saved on a follower chains to the previously saved block and is
\* stored with a commit of its own height, whatever blocks the DA layer returns:
\* the commit stored under h has height h, and the block of every saved height h
\* above the first carries the hash of the saved header of h-1.
C12_ContiguousApply ==
    ~aggregator =>
      \A k \in DOMAIN store.blocks :
        /\ store.commits[k].Height = k
        /\ k - 1 \in DOMAIN store.blocks =>
              store.blocks[k].Header.LastHeaderHash = Hash(store.blocks[k - 1].Header)

\* C13: Header.Verify on a trusted header h and an untrusted header u returns a
\* verification error exactly when u.height = h.height + 1 and u.aggregators_hash
\* differs from h.next_aggregators_hash; adjacent headers with equal hashes and
\* every pair that is not adjacent (u lower than, equal to, or more than one above
\* h) get no error, whatever their hashes.
C13_VerifyAdjacency ==
    verify.err # "none" =>
      LET t == verify.h
          u == verify.untrstH
      IN  /\ verify.err \in {"nil", "VerifyError"}
          /\ verify.err = "VerifyError" <=>
                (u.Height = t.Height + 1 /\ u.AggregatorsHash # t.NextAggregatorsHash)
          /\ u.Height # t.Height + 1 => verify.err = "nil"
          /\ u.AggregatorsHash = t.NextAggregatorsHash => verify.err = "nil"

\* C13 witness: an adjacent untrusted header of another aggregator set was refused.
C13_Witness ==
    /\ verify.err = "VerifyError"
    /\ verify.h.Height = MaxVerifyHeight - 1
    /\ verify.untrstH.Height = MaxVerifyHeight

\* C14: in every sequence of registry calls, Register(name, constructor) fails
\* exactly when the name is already registered, built in or added earlier; the
\* failure is the AlreadyRegistered error carrying that name and leaves the
\* registered constructors as they were; a Register of a new name succeeds, adds
\* that name to RegisteredClients() and changes no other entry; GetClient returns
\* a client for every registered name and nil for every other name.
C14_Registry ==
    [][registry' # registry =>
         LET last == registry'.last
             before == registry.clients
             after == registry'.clients
         IN  /\ last.op = "Register" =>
                   /\ last.err # << >> <=> last.name \in RegisteredClients(before)
                   /\ last.err # << >> =>
                         /\ last.err = <<"ErrAlreadyRegistered", last.name>>
                         /\ after = before
                   /\ last.err = << >> =>
                         /\ RegisteredClients(after) =
                              RegisteredClients(before) \cup {last.name}
                         /\ \A n \in RegisteredClients(before) : after[n] = before[n]
                         /\ GetClient(after, last.name) # << >>
             /\ last.op = "GetClient" =>
                   /\ after = before
                   /\ last.client # << >> <=> last.name \in RegisteredClients(before)
             /\ BuiltIn \subseteq RegisteredClients(after)]_vars

\* C14 witness: with "testDA" registered, a second registration of the built-in
\* "celestia" was refused with the error naming it.
C14_Witness ==
    /\ registry.last.op = "Register"
    /\ registry.last.err = <<"ErrAlreadyRegistered", "celestia">>
    /\ "testDA" \in RegisteredClients(registry.clients)
    /\ GetClient(registry.clients, "nonexistent") = << >>

\* C15: the Sync loop never waits to signal the Retrieve loop: no state has Sync
\* inside its signal to Retrieve while Retrieve is inside its hand-over of a block
\* to Sync, each waiting for the other.
C15_SignalNeverBlocks ==
    ~(pcSync = "signal" /\ pcRetrieve = "send")

\* C16: syncTarget never decreases; a header above Store.Height() sets it to the
\* larger of its old value and the header's height and wakes the Retrieve loop; a
\* header at or below Store.Height() leaves it unchanged and sends no wake.
C16_MonotoneTarget ==
    [][/\ syncTarget' >= syncTarget
       /\ headersIn' # headersIn =>
             IF pcSync' = "signal"
             THEN /\ retrieveCh'[1] > Height(store)
                  /\ syncTarget' = Max({syncTarget, retrieveCh'[1]})
             ELSE /\ syncTarget' = syncTarget
                  /\ retrieveCh' = << >>]_vars

\* C17: once the Sync loop has handled an inbound block, no executor or store call
\* having failed, the cache is drained: it does not hold both the block of
\* Store.Height()+1 and the block of Store.Height()+2.
C17_FullyDrained ==
    (~aggregator /\ clean /\ pcSync = "select") =>
      ~({Height(store) + 1, Height(store) + 2} \subseteq DOMAIN syncCache)

\* The steps the Aggregation loop takes without a consumer of HeaderOutCh.
AggregationStep ==
    \/ \E outcome \in PublishOutcomes : Tick(outcome)
    \/ AggregationReturn

\* C18: an Aggregation loop inside its send on HeaderOutCh, the context cancelled,
\* can go on without a consumer: the send also waits on the context, so the loop
\* has a step of its own to take and return.
C18_SendHonoursCancel ==
    (aggregator /\ pcAgg = "send" /\ cancelled) => ENABLED AggregationStep

\* C19: every block fetchBlock(h) hands to the Sync loop has header height h: a
\* Success answer carrying a block of another height is treated as an error and
\* never reaches blockInCh.
C19_OnlyRequestedHeight ==
    pcRetrieve = "send" => blockInCh[1].Header.Height = h

\* C20: whenever the Sync loop is idle, the staging cache holds no block of a
\* height at or below Store.Height(): every block leaves the cache once it is
\* saved, also after duplicate deliveries and after a failed UpdateState.
C20_CacheEviction ==
    (~aggregator /\ pcSync = "select") =>
      \A k \in DOMAIN syncCache : k > Height(store)

====
